---------------------------- MODULE Spec2Model ----------------------------
(* A model of the Travel API (src/main.py): the price normalisation helper  *)
(* _parse_price, the construction of a FlightInfo record from a raw flight  *)
(* of the flight collaborator, and the /trip/plan handler plan_trip, which  *)
(* searches the outbound flight, the three return-leg variants and the      *)
(* hotels one after the other, selects the cheapest of each and sums the    *)
(* cost.                                                                    *)
(*                                                                          *)
(* Python values are records tagged by k: None, a number, a string (a       *)
(* sequence of one-character strings), any other object, a raised           *)
(* exception.  Amounts of money are integers counting units of              *)
(* 10^-Decimals, so that the decimal strings float() reads within the       *)
(* length bound are represented exactly.                                    *)
EXTENDS Integers, Sequences, FiniteSets, TLC

VARIABLES
    pc,                    \* where plan_trip stands: idle, outbound, return, hotel, cost, done
    req,                   \* the TripPlanRequest being served
    best_outbound_flight,  \* local of plan_trip (line 229)
    best_return_flight,    \* local of plan_trip (lines 235, 268)
    best_price,            \* local of plan_trip (lines 237, 267)
    trip_idx,              \* position of the for loop of line 238 in its list
    hotels,                \* local of plan_trip (line 288)
    best_hotel,            \* local of plan_trip (line 306)
    response,              \* what the handler answered: status 0 is "not yet"
    calls,                 \* history: the collaborator calls made, in order
    return_log,            \* history: per return variant, its return_flights or the exception
    raw_price,             \* the raw price of the flight a FlightInfo is built from
    built                  \* the FlightInfo built from raw_price, or the exception

vars == <<pc, req, best_outbound_flight, best_return_flight, best_price, trip_idx,
          hotels, best_hotel, response, calls, return_log, raw_price, built>>

planVars == <<pc, req, best_outbound_flight, best_return_flight, best_price, trip_idx,
              hotels, best_hotel, response, calls, return_log>>

-----------------------------------------------------------------------------
(* Bounds of the model.                                                     *)

MaxLen == 3        \* longest raw price string given to _parse_price
MaxFlights == 2    \* most flights in one answer of the flight collaborator
MaxHotels == 2     \* most hotels in one answer of the hotel collaborator
MaxDay == 2        \* dates are the days 0..MaxDay
MaxAdults == 2     \* adults range over 1..MaxAdults
MaxChildren == 1   \* children range over 0..MaxChildren
MaxBudget == 3     \* budgets range over 0..MaxBudget whole currency units

-----------------------------------------------------------------------------
(* Python values.                                                           *)

None == [k |-> "none"]
Num(v) == [k |-> "num", v |-> v]
Str(s) == [k |-> "str", s |-> s]
Obj == [k |-> "obj"]
Raised(e) == [k |-> "raise", e |-> e]
Inf == [k |-> "inf"]

IsNone(x) == x.k = "none"
IsNum(x) == x.k = "num"
IsRaised(x) == x.k = "raise"

\* bool(x) of an Optional number, string or list
Truthy(x) ==
    CASE x.k = "none" -> FALSE
      [] x.k = "num" -> x.v # 0
      [] x.k = "str" -> x.s # <<>>
      [] x.k = "list" -> x.s # <<>>
      [] OTHER -> TRUE

RECURSIVE Pow10(_)
Pow10(n) == IF n = 0 THEN 1 ELSE 10 * Pow10(n - 1)

Decimals == MaxLen
Unit == Pow10(Decimals)

-----------------------------------------------------------------------------
(* _parse_price, lines 12-20.                                               *)

Digits == <<"0", "1", "2", "3", "4", "5", "6", "7", "8", "9">>
IsDigit(c) == \E i \in 1..10 : Digits[i] = c
DigitVal(c) == (CHOOSE i \in 1..10 : Digits[i] = c) - 1

\* the character class [\d,.] of line 15
InClass(c) == IsDigit(c) \/ c = "," \/ c = "."

\* re.search(r"[\d,.]+", s): the leftmost, longest run of class characters,
\* <<>> when there is none (a match is never empty)
ReSearch(s) ==
    LET starts == {i \in 1..Len(s) : InClass(s[i])}
    IN  IF starts = {} THEN <<>>
        ELSE LET a == CHOOSE i \in starts : \A j \in starts : i <= j
                 b == CHOOSE j \in a..Len(s) :
                          /\ \A m \in a..j : InClass(s[m])
                          /\ (j = Len(s) \/ ~InClass(s[j + 1]))
             IN  SubSeq(s, a, b)

NotComma(c) == c # ","

\* str.replace(",", "")
StripCommas(m) == SelectSeq(m, NotComma)

RECURSIVE DigitsValue(_)
DigitsValue(d) ==
    IF d = <<>> THEN 0
    ELSE 10 * DigitsValue(SubSeq(d, 1, Len(d) - 1)) + DigitVal(d[Len(d)])

\* float(t) for a string of digits and dots: a number when t holds at most one
\* dot and at least one digit, ValueError otherwise
PyFloat(t) ==
    LET dots == {i \in 1..Len(t) : t[i] = "."}
        ndig == Len(t) - Cardinality(dots)
    IN  IF Cardinality(dots) > 1 \/ ndig = 0 THEN Raised("ValueError")
        ELSE LET p == IF dots = {} THEN Len(t) + 1 ELSE CHOOSE i \in dots : TRUE
                 whole == SubSeq(t, 1, p - 1)
                 frac == SubSeq(t, p + 1, Len(t))
                 scaled == IF Len(frac) <= Decimals
                           THEN DigitsValue(frac) * Pow10(Decimals - Len(frac))
                           ELSE DigitsValue(SubSeq(frac, 1, Decimals))
             IN  Num(DigitsValue(whole) * Unit + scaled)

\* as _parse_price, with the pattern -?[\d,.]+ : a minus sign before the
\* digits is read as the sign
_parse_price_signed(price) ==
    IF price.k = "str"
    THEN LET m == ReSearch(price.s)
             starts == {i \in 1..Len(price.s) : InClass(price.s[i])}
             a == CHOOSE i \in starts : \A j \in starts : i <= j
             v == PyFloat(StripCommas(m))
         IN  IF m # <<>>
             THEN (IF IsNum(v) /\ a > 1 /\ price.s[a - 1] = "-" THEN Num(0 - v.v) ELSE v)
             ELSE None
    ELSE price

_parse_price(price) ==
    IF price.k = "str"
    THEN LET m == ReSearch(price.s)
         IN  IF m # <<>> THEN PyFloat(StripCommas(m)) ELSE None
    ELSE price

\* validation of the field price: Optional[float] (line 81): None and numbers
\* are accepted, anything else is a ValidationError
ValidatePrice(p) ==
    IF IsRaised(p) THEN p
    ELSE IF IsNone(p) \/ IsNum(p) THEN p
    ELSE Raised("ValidationError")

\* FlightInfo(name=f.name, ..., price=_parse_price(getattr(f, 'price', None)))
\* of lines 174-184, 217-227 and 253-263: the record, or the exception raised
\* while it is built
FlightInfo(f) ==
    LET p == ValidatePrice(_parse_price(f.price))
    IN  IF IsRaised(p) THEN p ELSE [k |-> "flight", name |-> f.name, price |-> p]

-----------------------------------------------------------------------------
(* Requests and what the collaborators answer.                              *)

DateStr(d) == [k |-> "date", day |-> d]
EmptyStr == Str(<<>>)
BadDate == Str(<<"s", "o", "o", "n">>)
List(s) == [k |-> "list", s |-> s]

Prefs(star, maxp, am) ==
    [k |-> "prefs", star_rating |-> star, max_price_per_night |-> maxp, amenities |-> am]

\* TripPlanRequest, lines 93-101
Requests(Departs, Returns, Adults, Children, Preferences, Budgets) ==
    [depart_date : Departs, return_date : Returns, adults : Adults, children : Children,
     hotel_preferences : Preferences, max_total_budget : Budgets]

NoRequest ==
    [depart_date |-> 0, return_date |-> None, adults |-> 1, children |-> 0,
     hotel_preferences |-> None, max_total_budget |-> None]

UpstreamError == Raised("UpstreamError")

\* what get_flights can answer for one leg: an exception, or result.flights, at
\* most MaxFlights flights priced from Quotes, named by leg and position
FlightAnswers(Quotes, leg) ==
    {UpstreamError} \cup
    UNION {{[k |-> "ok",
             flights |-> [i \in 1..n |-> [name |-> <<leg, i>>, price |-> q[i]]]] :
            q \in [1..n -> Quotes]} : n \in 0..MaxFlights}

\* what get_hotels can answer: an exception, or result.hotels, at most MaxHotels
\* hotels from Stock, named by position
HotelAnswers(Stock) ==
    {UpstreamError} \cup
    UNION {{[k |-> "ok",
             hotels |-> [i \in 1..n |-> [name |-> i, price |-> h[i].price,
                                         rating |-> h[i].rating,
                                         amenities |-> h[i].amenities]]] :
            h \in [1..n -> Stock]} : n \in 0..MaxHotels}

-----------------------------------------------------------------------------
(* The pieces of plan_trip.                                                 *)

\* [FlightInfo(...) for f in result.flights], lines 216-228 and 252-264: the
\* list, or the first exception raised while it is built
FlightInfos(flights) ==
    LET infos == [i \in 1..Len(flights) |-> FlightInfo(flights[i])]
        bad == {i \in 1..Len(flights) : IsRaised(infos[i])}
    IN  IF bad = {} THEN List(infos)
        ELSE infos[CHOOSE i \in bad : \A j \in bad : i <= j]

HasPrice(x) == ~IsNone(x.price)

\* min((x for x in xs if x.price is not None), key=lambda x: x.price,
\* default=None), lines 229, 265 and 306: the first of the cheapest
MinByPrice(xs) ==
    LET priced == SelectSeq(xs, HasPrice)
    IN  IF priced = <<>> THEN None
        ELSE priced[CHOOSE i \in 1..Len(priced) :
                        /\ \A j \in 1..Len(priced) : priced[i].price.v <= priced[j].price.v
                        /\ \A j \in 1..(i - 1) : priced[j].price.v > priced[i].price.v]

\* as Improves, comparing with <=: the last of the cheapest wins a tie
ImprovesOrTies(candidate, bp) ==
    /\ ~IsNone(candidate)
    /\ ~IsNone(candidate.price)
    /\ (bp.k = "inf" \/ candidate.price.v <= bp.v)

\* candidate and candidate.price is not None and candidate.price < best_price,
\* line 266 (best_price starts as float('inf'))
Improves(candidate, bp) ==
    /\ ~IsNone(candidate)
    /\ ~IsNone(candidate.price)
    /\ (bp.k = "inf" \/ candidate.price.v < bp.v)

\* as TripTypes, round-trip first
TripTypesSwapped == <<"round-trip", "one-way", "multi-city">>

TripTypes == <<"one-way", "round-trip", "multi-city">>

\* HotelInfo(...), lines 289-295
HotelInfo(h) ==
    [k |-> "hotel", name |-> h.name, price |-> h.price, rating |-> h.rating,
     amenities |-> h.amenities]

\* line 301: h.rating and h.rating >= star_rating
StarOk(h, star) == Truthy(h.rating) /\ h.rating.v >= star.v

\* line 303: h.price and h.price <= max_price_per_night
MaxPriceOk(h, maxp) == Truthy(h.price) /\ h.price.v <= maxp.v

\* line 305: h.amenities and all(a in h.amenities for a in amenities)
AmenitiesOk(h, am) ==
    /\ Truthy(h.amenities)
    /\ \A i \in 1..Len(am.s) : \E j \in 1..Len(h.amenities.s) : h.amenities.s[j] = am.s[i]

\* the preferences plan_trip applies, lines 299-305: a preference is applied
\* when it is truthy
StarApplies(p) == Truthy(p) /\ Truthy(p.star_rating)
MaxPriceApplies(p) == Truthy(p) /\ Truthy(p.max_price_per_night)
AmenitiesApply(p) == Truthy(p) /\ Truthy(p.amenities)

\* filtered_hotels, lines 298-305
FilteredHotels(hs, p) ==
    LET Keep(h) ==
            /\ (StarApplies(p) => StarOk(h, p.star_rating))
            /\ (MaxPriceApplies(p) => MaxPriceOk(h, p.max_price_per_night))
            /\ (AmenitiesApply(p) => AmenitiesOk(h, p.amenities))
    IN  SelectSeq(hs, Keep)

\* pd.to_datetime(x), line 317: the day, or the exception for a string that is
\* no date
ToDatetime(x) ==
    IF x.k = "date" THEN Num(x.day)
    ELSE IF x.k = "num" THEN x
    ELSE Raised("DateParseError")

\* as Nights, never less than one night
NightsAtLeastOne(r) ==
    IF Truthy(r.return_date)
    THEN LET ret == ToDatetime(r.return_date)
         IN  IF IsRaised(ret) THEN ret
             ELSE Num(IF ret.v - r.depart_date < 1 THEN 1 ELSE ret.v - r.depart_date)
    ELSE Num(1)

\* nights, line 317
Nights(r) ==
    IF Truthy(r.return_date)
    THEN LET ret == ToDatetime(r.return_date)
         IN  IF IsRaised(ret) THEN ret ELSE Num(ret.v - r.depart_date)
    ELSE Num(1)

\* as LegCost, the price of one passenger
LegCostOnePassenger(x, r) ==
    IF Truthy(x) /\ Truthy(x.price) THEN x.price.v ELSE 0

\* x.price * (adults + children) when x and x.price, lines 313-316
LegCost(x, r) ==
    IF Truthy(x) /\ Truthy(x.price) THEN x.price.v * (r.adults + r.children) ELSE 0

\* total_flight_cost, lines 312-316
FlightCost(bo, br, r) == LegCost(bo, r) + LegCost(br, r)

\* total_hotel_cost, line 318
HotelCost(bh, nights) ==
    IF Truthy(bh) /\ Truthy(bh.price) THEN bh.price.v * nights ELSE 0

\* per_person_per_day, line 320: the fraction total / ((adults+children)*nights)
PerPersonPerDay(total, r, nights) ==
    IF nights > 0 /\ (r.adults + r.children) > 0
    THEN [k |-> "frac", num |-> total, den |-> (r.adults + r.children) * nights]
    ELSE None

Advice == Str(<<"Consider adjusting your dates, reducing hotel star rating, or increasing your budget.">>)

\* suggestions, lines 329-331
Suggestions(budget, total) ==
    IF Truthy(budget) /\ total > budget.v THEN Advice ELSE None

\* the TripPlanResponse of lines 322-341
TripPlanResponse(bo, br, bh, r, nights) ==
    LET flight == FlightCost(bo, br, r)
        hotel == HotelCost(bh, nights)
        total == flight + hotel
    IN  [status |-> 200,
         best_outbound_flight |-> bo,
         best_return_flight |-> br,
         best_hotel |-> bh,
         total_estimated_cost |-> total,
         per_person_per_day |-> PerPersonPerDay(total, r, nights),
         breakdown |-> [flight |-> flight, hotel |-> hotel, nights |-> nights,
                        adults |-> r.adults, children |-> r.children],
         suggestions |-> Suggestions(r.max_total_budget, total)]

\* raise HTTPException(status_code=..., detail=...), lines 232, 309 and 346
HTTPException(code, prefix, e) == [status |-> code, detail |-> <<prefix, e.e>>]

NoResponse == [status |-> 0]

\* one collaborator call, as the history keeps it
Call(fn, leg, trip, ok) == [fn |-> fn, leg |-> leg, trip |-> trip, ok |-> ok]

\* as Propagate, without the handler of lines 342-343: every exception, an
\* HTTPException too, becomes a 400
PropagateAs400(exc) ==
    [status |-> 400, detail |-> <<"", IF exc.status # 0 THEN exc.detail[2] ELSE exc.e>>]

\* the handlers of lines 342-346: an HTTPException leaves plan_trip as it is,
\* any other exception becomes a 400
Propagate(exc) ==
    IF exc.status # 0 THEN exc ELSE [status |-> 400, detail |-> <<"", exc.e>>]

Uncaught(e) == [status |-> 0, e |-> e.e]

\* as ReturnStep, a failed variant discarding what the earlier ones found
ReturnStepResetOnError(best, bp, res) ==
    IF IsRaised(res) THEN [best |-> None, price |-> Inf]
    ELSE LET candidate == MinByPrice(res.s)
         IN  IF Improves(candidate, bp)
             THEN [best |-> candidate, price |-> candidate.price]
             ELSE [best |-> best, price |-> bp]

\* one pass of the loop body, lines 239-270, on what the try block produced
\* (return_flights, or the exception it raised): the new best_return_flight
\* and best_price
ReturnStep(best, bp, res) ==
    LET candidate == IF IsRaised(res) THEN None ELSE MinByPrice(res.s)
    IN  IF ~IsRaised(res) /\ Improves(candidate, bp)
        THEN [best |-> candidate, price |-> candidate.price]
        ELSE [best |-> best, price |-> bp]

\* the loop of lines 238-270 run over the outcomes of its passes, from
\* best_return_flight = best and best_price = bp: the final best_return_flight
RECURSIVE ReturnLoop(_, _, _)
ReturnLoop(log, best, bp) ==
    IF log = <<>> THEN best
    ELSE LET new == ReturnStep(best, bp, Head(log))
         IN  ReturnLoop(Tail(log), new.best, new.price)

-----------------------------------------------------------------------------
(* plan_trip, lines 193-346, one action per collaborator call and one for   *)
(* the cost aggregation and the response.                                   *)

NotBuilt == [k |-> "notbuilt"]

InitPlan ==
    /\ pc = "idle"
    /\ req = NoRequest
    /\ best_outbound_flight = None
    /\ best_return_flight = None
    /\ best_price = None
    /\ trip_idx = 0
    /\ hotels = None
    /\ best_hotel = None
    /\ response = NoResponse
    /\ calls = <<>>
    /\ return_log = <<>>

\* POST /trip/plan with a request of Reqs
Receive(Reqs) ==
    /\ pc = "idle"
    /\ \E r \in Reqs : req' = r
    /\ pc' = "outbound"
    /\ UNCHANGED <<best_outbound_flight, best_return_flight, best_price, trip_idx, hotels,
                   best_hotel, response, calls, return_log, raw_price, built>>

\* lines 196-237: the outbound search, and the start of the return loop
Outbound(Quotes) ==
    /\ pc = "outbound"
    /\ \E a \in FlightAnswers(Quotes, "outbound") :
          LET res == IF IsRaised(a) THEN a ELSE FlightInfos(a.flights)
          IN  /\ calls' = Append(calls, Call("get_flights", "outbound", "one-way", ~IsRaised(a)))
              /\ IF IsRaised(res)
                 THEN /\ response' = Propagate(HTTPException(502, "Outbound flight search failed:", res))
                      /\ pc' = "done"
                      /\ UNCHANGED <<best_outbound_flight, best_return_flight, best_price, trip_idx>>
                 ELSE /\ best_outbound_flight' = MinByPrice(res.s)
                      /\ best_return_flight' = None
                      /\ IF Truthy(req.return_date)
                         THEN best_price' = Inf /\ trip_idx' = 1 /\ pc' = "return"
                         ELSE UNCHANGED <<best_price, trip_idx>> /\ pc' = "hotel"
                      /\ UNCHANGED response
    /\ UNCHANGED <<req, hotels, best_hotel, return_log, raw_price, built>>

\* lines 238-270: one return-leg variant
ReturnVariant(Quotes) ==
    /\ pc = "return"
    /\ \E a \in FlightAnswers(Quotes, TripTypes[trip_idx]) :
          LET res == IF IsRaised(a) THEN a ELSE FlightInfos(a.flights)
              new == ReturnStep(best_return_flight, best_price, res)
          IN  /\ calls' = Append(calls, Call("get_flights", "return", TripTypes[trip_idx], ~IsRaised(a)))
              /\ return_log' = Append(return_log, res)
              /\ best_return_flight' = new.best
              /\ best_price' = new.price
    /\ trip_idx' = trip_idx + 1
    /\ pc' = IF trip_idx = Len(TripTypes) THEN "hotel" ELSE "return"
    /\ UNCHANGED <<req, best_outbound_flight, hotels, best_hotel, response, raw_price, built>>

\* lines 273-309: the hotel search, the preference filter and the selection
Hotel(Stock) ==
    /\ pc = "hotel"
    /\ \E a \in HotelAnswers(Stock) :
          /\ calls' = Append(calls, Call("get_hotels", "hotel", "", ~IsRaised(a)))
          /\ IF IsRaised(a)
             THEN /\ response' = Propagate(HTTPException(502, "Hotel search failed:", a))
                  /\ pc' = "done"
                  /\ UNCHANGED <<hotels, best_hotel>>
             ELSE /\ hotels' = List([i \in 1..Len(a.hotels) |-> HotelInfo(a.hotels[i])])
                  /\ best_hotel' = MinByPrice(FilteredHotels(hotels'.s, req.hotel_preferences))
                  /\ pc' = "cost"
                  /\ UNCHANGED response
    /\ UNCHANGED <<req, best_outbound_flight, best_return_flight, best_price, trip_idx,
                   return_log, raw_price, built>>

\* lines 311-341: the cost aggregation and the response
Cost ==
    /\ pc = "cost"
    /\ LET nights == Nights(req)
       IN  response' = IF IsRaised(nights)
                       THEN Propagate(Uncaught(nights))
                       ELSE TripPlanResponse(best_outbound_flight, best_return_flight,
                                             best_hotel, req, nights.v)
    /\ pc' = "done"
    /\ UNCHANGED <<req, best_outbound_flight, best_return_flight, best_price, trip_idx,
                   hotels, best_hotel, calls, return_log, raw_price, built>>

-----------------------------------------------------------------------------
(* Building one FlightInfo from a raw price.                                *)

\* lines 174-184: FlightInfo(..., price=_parse_price(getattr(f, 'price', None)))
BuildFlightInfo ==
    /\ built = NotBuilt
    /\ built' = FlightInfo([name |-> "f", price |-> raw_price])
    /\ UNCHANGED <<planVars, raw_price>>

-----------------------------------------------------------------------------
(* The inputs the specifications draw from.                                 *)

Days == 0..MaxDay
Dates == {DateStr(d) : d \in Days}
Money(n) == Num(n * Unit)

\* raw price strings: every string of at most MaxLen of these characters
Chars == {"$", "-", "1", "2", ",", "."}
RawStrings == UNION {{Str(s) : s \in [1..n -> Chars]} : n \in 0..MaxLen}
RawPrices == RawStrings \cup {None, Obj} \cup {Money(n) : n \in -1..1}

Dollar(n) == Str(<<"$", Digits[n + 1]>>)
Wifi == "Free Wi-Fi"
Pool == "Pool"

\* return legs: every answer of every leg, one plain request with and without
\* a return date
LegRequests ==
    Requests({0}, {None, EmptyStr, DateStr(MaxDay)}, {1}, {0}, {None}, {None})
LegQuotes == {None, Dollar(1), Dollar(2), Str(<<".">>)}
LegStock == {}

\* hotels: every preference against every list of hotels, for a one-way trip,
\* and one request with a return date and no preference
HotelPreferences ==
    {None} \cup {Prefs(st, mp, am) :
                    st \in {None, Num(0), Num(4)},
                    mp \in {None, Money(0), Money(1)},
                    am \in {None, List(<<>>), List(<<Wifi>>)}}
HotelRequests ==
    Requests({0}, {None}, {1}, {0}, HotelPreferences, {None})
    \cup Requests({0}, {DateStr(MaxDay)}, {1}, {0}, {None}, {None})
HotelQuotes == {Dollar(1)}
HotelStock ==
    [price : {None, Money(0), Money(1), Money(2)},
     rating : {None, Num(3), Num(4)},
     amenities : {None, List(<<Wifi, Pool>>)}]

\* cost: every date, party and budget, priced and unpriced selections
CostRequests ==
    Requests(Days, {None, EmptyStr, BadDate} \cup Dates, 1..MaxAdults, 0..MaxChildren,
             {None}, {None} \cup {Money(b) : b \in 0..MaxBudget})
CostQuotes == {Dollar(1)}
CostStock == {[price |-> Money(1), rating |-> None, amenities |-> None]}

-----------------------------------------------------------------------------
(* Specifications.                                                          *)

Init == InitPlan /\ raw_price = None /\ built = NotBuilt

NextLegs ==
    \/ Receive(LegRequests)
    \/ Outbound(LegQuotes)
    \/ ReturnVariant(LegQuotes)
    \/ Hotel(LegStock)
    \/ Cost

NextHotel ==
    \/ Receive(HotelRequests)
    \/ Outbound(HotelQuotes)
    \/ ReturnVariant(HotelQuotes)
    \/ Hotel(HotelStock)
    \/ Cost

NextCost ==
    \/ Receive(CostRequests)
    \/ Outbound(CostQuotes)
    \/ ReturnVariant(CostQuotes)
    \/ Hotel(CostStock)
    \/ Cost

InitPrice == InitPlan /\ raw_price \in RawPrices /\ built = NotBuilt

NextPrice == BuildFlightInfo

SpecLegs == Init /\ [][NextLegs]_vars
SpecHotel == Init /\ [][NextHotel]_vars
SpecCost == Init /\ [][NextCost]_vars
SpecPrice == InitPrice /\ [][NextPrice]_vars
Spec == SpecLegs

-----------------------------------------------------------------------------
(* Properties of the outbound leg and of the order of the calls             *)
(* (SpecLegs).                                                              *)

OutboundPrefix == "Outbound flight search failed:"
Ok200 == response.status = 200
ReturnSupplied == ~IsNone(req.return_date)
PastLoop == pc \in {"hotel", "cost"} \/ (pc = "done" /\ calls # <<>> /\ calls[Len(calls)].leg = "hotel")

\* C1: whenever the outbound flight search fails, the request ends with a 502
\* whose detail starts with "Outbound flight search failed:", and that search
\* is the only collaborator call of the request (no return-leg search, no
\* hotel search).
C1_OutboundFailureEnds502 ==
    /\ (calls # <<>> /\ ~calls[1].ok) =>
          /\ pc = "done"
          /\ response.status = 502
          /\ response.detail[1] = OutboundPrefix
          /\ Len(calls) = 1
    /\ (pc = "done" /\ Len(calls) = 1) =>
          /\ response.status = 502
          /\ response.detail[1] = OutboundPrefix

C1_Witness ==
    /\ pc = "done"
    /\ Len(calls) = 1
    /\ ~calls[1].ok
    /\ response.status = 502

\* the order the return variants are to be searched in
VariantOrder == <<"one-way", "round-trip", "multi-city">>

\* C8: the calls of one request are, in this order, the outbound search, then
\* (only with a return date) the return searches one-way, round-trip,
\* multi-city whatever their outcomes, then the hotel search; no call is made
\* twice, so none is retried.
C8_CallOrder ==
    LET n == Len(calls)
        expected == IF Truthy(req.return_date)
                    THEN <<"outbound", "return", "return", "return", "hotel">>
                    ELSE <<"outbound", "hotel">>
    IN  /\ n <= Len(expected)
        /\ \A i \in 1..n : calls[i].leg = expected[i]
        /\ \A i \in 1..n : calls[i].leg = "outbound" =>
              calls[i].fn = "get_flights" /\ calls[i].trip = "one-way"
        /\ \A i \in 1..n : calls[i].leg = "return" =>
              /\ ReturnSupplied
              /\ calls[i].fn = "get_flights"
              /\ calls[i].trip = VariantOrder[i - 1]
        /\ \A i \in 1..n : calls[i].leg = "hotel" => calls[i].fn = "get_hotels"
        /\ \A i, j \in 1..n :
              (calls[i].leg = calls[j].leg /\ calls[i].trip = calls[j].trip) => i = j
        /\ (PastLoop /\ Truthy(req.return_date)) =>
              \A t \in 1..Len(VariantOrder) : \E i \in 1..n :
                  calls[i].leg = "return" /\ calls[i].trip = VariantOrder[t]

C8_Witness ==
    /\ pc = "done"
    /\ Len(calls) = 5
    /\ ~calls[2].ok
    /\ calls[3].ok
    /\ ~calls[4].ok
    /\ calls[5].ok

-----------------------------------------------------------------------------
(* Properties of the return leg (SpecLegs).                                 *)

\* a failed variant taken as one that returned no flights
Scrub(log) == [i \in 1..Len(log) |-> IF IsRaised(log[i]) THEN List(<<>>) ELSE log[i]]

SomeVariantFailed == \E i \in 1..Len(return_log) : IsRaised(return_log[i])

\* C2: failures of return-leg variants never produce an error response: every
\* variant and the hotel search are still carried out, and the selected return
\* flight and the response are those of the run in which each failed variant
\* returned no flights.
C2_ReturnFailuresSkipped ==
    /\ (response.status \notin {0, 200}) => calls[Len(calls)].leg # "return"
    /\ (pc = "return") => (response.status = 0 /\ Len(return_log) = trip_idx - 1)
    /\ (PastLoop /\ Truthy(req.return_date)) =>
          /\ Len(return_log) = Len(TripTypes)
          /\ best_return_flight = ReturnLoop(Scrub(return_log), None, Inf)
    /\ (pc = "done" /\ Len(calls) > 1) => calls[Len(calls)].fn = "get_hotels"
    /\ Ok200 =>
          response = TripPlanResponse(best_outbound_flight,
                                      ReturnLoop(Scrub(return_log), None, Inf),
                                      best_hotel, req, Nights(req).v)

C2_Witness ==
    /\ Ok200
    /\ Len(return_log) = 3
    /\ IsRaised(return_log[1])
    /\ ~IsRaised(return_log[2])
    /\ IsRaised(return_log[3])
    /\ ~IsNone(response.best_return_flight)

\* the flights of the variants that did not fail, in the order found
RECURSIVE Found(_)
Found(log) ==
    IF log = <<>> THEN <<>>
    ELSE (IF IsRaised(Head(log)) THEN <<>> ELSE Head(log).s) \o Found(Tail(log))

\* x is the first of the cheapest priced records of xs
FirstCheapest(x, xs) ==
    \E i \in 1..Len(xs) :
        /\ xs[i] = x
        /\ HasPrice(xs[i])
        /\ \A j \in 1..Len(xs) : HasPrice(xs[j]) => xs[i].price.v <= xs[j].price.v
        /\ \A j \in 1..(i - 1) : HasPrice(xs[j]) => xs[j].price.v > xs[i].price.v

SomePriced(xs) == \E i \in 1..Len(xs) : HasPrice(xs[i])

\* C3: with a return date, best_return_flight is the flight of minimum non-null
\* price over the flights of the variants that did not fail, the first found
\* on equal prices, and it is omitted when none of them is priced.
C3_BestReturnIsFirstCheapest ==
    (Ok200 /\ ReturnSupplied) =>
        IF SomePriced(Found(return_log))
        THEN FirstCheapest(response.best_return_flight, Found(return_log))
        ELSE IsNone(response.best_return_flight)

C3_Witness ==
    /\ Ok200
    /\ SomeVariantFailed
    /\ ~IsNone(response.best_return_flight)
    /\ \E i \in 1..Len(Found(return_log)) :
          /\ Found(return_log)[i].name[1] # response.best_return_flight.name[1]
          /\ Found(return_log)[i].price = response.best_return_flight.price
    /\ \E i \in 1..Len(Found(return_log)) :
          /\ HasPrice(Found(return_log)[i])
          /\ Found(return_log)[i].price.v > response.best_return_flight.price.v

-----------------------------------------------------------------------------
(* Properties of the hotel selection (SpecHotel).                           *)

Specified(x) == ~IsNone(x)

\* h has a price and meets every preference p specifies
MeetsPreferences(h, p) ==
    /\ HasPrice(h)
    /\ Specified(p) =>
          /\ Specified(p.star_rating) =>
                (~IsNone(h.rating) /\ h.rating.v >= p.star_rating.v)
          /\ Specified(p.max_price_per_night) =>
                h.price.v <= p.max_price_per_night.v
          /\ Specified(p.amenities) =>
                \A i \in 1..Len(p.amenities.s) :
                    /\ ~IsNone(h.amenities)
                    /\ \E j \in 1..Len(h.amenities.s) : h.amenities.s[j] = p.amenities.s[i]

Eligible(hs, p) == {i \in 1..Len(hs) : MeetsPreferences(hs[i], p)}

\* C4: after a successful hotel search, best_hotel is the first of the
\* cheapest hotels that have a price and meet every specified preference, and
\* it is omitted exactly when there is no such hotel.
C4_BestHotelMeetsPreferences ==
    (pc = "cost" \/ Ok200) =>
        LET e == Eligible(hotels.s, req.hotel_preferences)
        IN  IF e = {} THEN IsNone(best_hotel)
            ELSE \E i \in e :
                    /\ best_hotel = hotels.s[i]
                    /\ \A j \in e : hotels.s[i].price.v <= hotels.s[j].price.v
                    /\ \A j \in e : j < i => hotels.s[j].price.v > hotels.s[i].price.v

-----------------------------------------------------------------------------
(* Properties of the cost aggregation (SpecCost).                           *)

IsDate(x) == x.k = "date"
PriceOrZero(x) == IF IsNone(x) THEN 0 ELSE IF IsNone(x.price) THEN 0 ELSE x.price.v

\* C5 as stated: the nights of a successful response are at least 1: the day
\* difference with a return date, 1 without, and 1 for a same-day trip.
C5_NightsAtLeastOne ==
    Ok200 =>
        /\ response.breakdown.nights >= 1
        /\ IsDate(req.return_date) =>
              response.breakdown.nights =
                  (IF req.return_date.day = req.depart_date THEN 1
                   ELSE req.return_date.day - req.depart_date)
        /\ ~IsDate(req.return_date) => response.breakdown.nights = 1

\* C5 amended: the nights of a successful response are the day difference
\* between return_date and depart_date when a non-empty return_date is given,
\* zero for a same-day trip and negative for a return before the departure,
\* and 1 when return_date is absent or empty; so they are at least 1 exactly
\* when return_date is absent, empty or later than depart_date.
C5_NightsAreDayDifference ==
    Ok200 =>
        /\ IsDate(req.return_date) =>
              response.breakdown.nights = req.return_date.day - req.depart_date
        /\ ~IsDate(req.return_date) =>
              (~Truthy(req.return_date) /\ response.breakdown.nights = 1)
        /\ (response.breakdown.nights >= 1) <=>
              (~IsDate(req.return_date) \/ req.return_date.day > req.depart_date)

C5_Witness ==
    /\ Ok200
    /\ IsDate(req.return_date)
    /\ req.return_date.day = req.depart_date
    /\ response.breakdown.nights = 0
    /\ ~IsNone(response.best_hotel)

\* C6: in a successful response total_estimated_cost is flight cost plus hotel
\* cost, the flight cost is (adults + children) times the sum of the prices of
\* the selected outbound and return flights, the hotel cost is the price of
\* the selected hotel times the nights, 0 without a priced hotel, and the
\* breakdown carries these two components.
C6_TotalIsFlightPlusHotel ==
    Ok200 =>
        LET party == req.adults + req.children
            flight == party * (PriceOrZero(response.best_outbound_flight)
                               + PriceOrZero(response.best_return_flight))
            hotel == PriceOrZero(response.best_hotel) * response.breakdown.nights
        IN  /\ response.breakdown.flight = flight
            /\ response.breakdown.hotel = hotel
            /\ response.total_estimated_cost = flight + hotel
            /\ response.best_outbound_flight = best_outbound_flight
            /\ response.best_return_flight = best_return_flight
            /\ response.best_hotel = best_hotel

C6_Witness ==
    /\ Ok200
    /\ req.adults + req.children >= 2
    /\ response.breakdown.nights >= 2
    /\ ~IsNone(response.best_outbound_flight)
    /\ ~IsNone(response.best_return_flight)
    /\ ~IsNone(response.best_hotel)
    /\ response.breakdown.flight > 0
    /\ response.breakdown.hotel > 0

\* C7: a successful response carries the advisory string exactly when
\* max_total_budget was supplied and total_estimated_cost is strictly greater
\* than it, for every supplied budget; suggestions is omitted otherwise.
C7_AdvisoryIffOverBudget ==
    Ok200 =>
        IF Specified(req.max_total_budget)
           /\ response.total_estimated_cost > req.max_total_budget.v
        THEN response.suggestions = Advice
        ELSE IsNone(response.suggestions)

-----------------------------------------------------------------------------
(* Properties of the price normalisation (SpecPrice).                       *)

\* C9: _parse_price is total: for every raw price it returns a number or None
\* and never raises, so building a FlightInfo from a raw price never fails.
C9_ParsePriceTotal ==
    built # NotBuilt =>
        /\ IsNone(_parse_price(raw_price)) \/ IsNum(_parse_price(raw_price))
        /\ built.k = "flight"

\* C10 as stated: the price of every FlightInfo is None or a non-negative
\* number, whatever the raw price.
C10_PriceNeverNegative ==
    (built # NotBuilt /\ built.k = "flight") =>
        (IsNone(built.price) \/ built.price.v >= 0)

\* C10 amended: the price of a FlightInfo built from a raw price that is a
\* string or missing is None or a non-negative number; a numeric raw price
\* passes through unchanged, so it is non-negative exactly when the raw price
\* is.
C10_StringPriceNeverNegative ==
    (built # NotBuilt /\ built.k = "flight") =>
        /\ raw_price.k \in {"str", "none"} =>
              (IsNone(built.price) \/ built.price.v >= 0)
        /\ raw_price.k = "num" => built.price = raw_price

C10_Witness ==
    /\ built # NotBuilt
    /\ built.k = "flight"
    /\ raw_price.k = "str"
    /\ \E i \in 1..Len(raw_price.s) : raw_price.s[i] = "-"
    /\ IsNum(built.price)
    /\ built.price.v > 0

=============================================================================
